---- MODULE Spec2Model ----
(***************************************************************************)
(* Model of lumenintellects/pdf-to-json (src/src/pdf_to_json.py).          *)
(*                                                                         *)
(* Python strings are sequences of one-character strings, so that tag      *)
(* formatting, regular-expression matching and concatenation are computed  *)
(* as the code computes them.                                              *)
(*                                                                         *)
(*   Spec      HTMLToJsonConverter: process_list_to_json and its stages    *)
(*   TitlesSpec  _process_titles alone, with weak fairness of its steps    *)
(*             (the interpreter always runs the next statement)            *)
(*   ParseSpec PDFParser: process_document                                 *)
(*   AppSpec   PDFToJsonConverterApp: process_pdf_to_json (src/src/app.py) *)
(***************************************************************************)
EXTENDS Integers, Sequences, FiniteSets

VARIABLES
    entry,                  \* the method that was called
    pc,                     \* position in the running call
    \* HTMLToJsonConverter
    data_list,              \* self.data_list: the pages handed to the converter
    structured_data,        \* process_list_to_json: the sections collected from the pages
    pg,                     \* index of the page process_list_to_json is at
    flat_page,              \* _process_page_content: the flattened items of the page
    item_idx,               \* _process_page_content: index of the next item
    current_section,        \* _process_page_content: the section being filled
    title_set,              \* _process_page_content: the title_set flag
    structured_page_data,   \* _process_page_content: the sections of the page so far
    page_out,               \* the lists returned by the _process_page_content calls
    data,                   \* the section list the repair stages work on
    i,                      \* _process_titles: the cursor
    arg,                    \* the section list the first repair stage was called with
    \* PDFParser
    doc,                    \* self.doc: the pages of the document
    page_idx,               \* process_document: index of the page the loop is at
    font_counts,            \* process_document: the sorted (identifier, count) pairs
    styles,                 \* process_document: identifier -> style of the page
    size_tag,               \* process_document: identifier -> tag of the page
    block_idx,              \* _extract_page_content: index of the next block
    page_blocks,            \* _extract_page_content: the block strings so far
    html_pages_list,        \* process_document: the entries of the pages done
    \* PDFToJsonConverterApp
    all_pages_data,         \* process_pdf_to_json: what process_document returned
    json_output,            \* what process_pdf_to_json returned
    st_error                \* whether st.error has shown a message

cvars == <<data_list, structured_data, pg, flat_page, item_idx, current_section,
           title_set, structured_page_data, page_out, data, i, arg>>

pvars == <<doc, page_idx, font_counts, styles, size_tag, block_idx, page_blocks,
           html_pages_list>>

avars == <<all_pages_data, json_output, st_error>>

vars == <<entry, pc, cvars, pvars, avars>>

(***************************************************************************)
(* Bounds of the model.                                                    *)
(***************************************************************************)
MaxSections == 3
MaxItems == 3
MaxSpans == 3

(***************************************************************************)
(* Strings.                                                                *)
(***************************************************************************)
Digit == {"0", "1", "2", "3", "4", "5", "6", "7", "8", "9"}

DigitChar(d) == <<"0", "1", "2", "3", "4", "5", "6", "7", "8", "9">>[d + 1]

\* str(n) for a natural number n, as the f-strings format it
RECURSIVE Decimal(_)
Decimal(n) == IF n < 10 THEN <<DigitChar(n)>>
              ELSE Decimal(n \div 10) \o <<DigitChar(n % 10)>>

\* s[j:] (0-based j as in Python, clipped)
Drop(s, j) == SubSeq(s, j + 1, Len(s))

\* s.startswith(prefix, j) with 1-based j
StartsAt(s, j, prefix) ==
    /\ j + Len(prefix) - 1 <= Len(s)
    /\ SubSeq(s, j, j + Len(prefix) - 1) = prefix

\* index of the first occurrence of the character c in s, 0 if there is none
RECURSIVE FindFrom(_, _, _)
FindFrom(s, c, j) == IF j > Len(s) THEN 0
                     ELSE IF s[j] = c THEN j
                     ELSE FindFrom(s, c, j + 1)

\* s.split(c, 1)[1]: what follows the first c  (IndexError when c is absent;
\* the callers below only pass tags, which hold both "<" and ">")
AfterFirst(s, c) == Drop(s, FindFrom(s, c, 1))

\* s.split(c, 1)[0]: what precedes the first c, all of s when c is absent
BeforeFirst(s, c) == IF FindFrom(s, c, 1) = 0 THEN s
                     ELSE SubSeq(s, 1, FindFrom(s, c, 1) - 1)

(***************************************************************************)
(* Tags (PDFParser).                                                       *)
(***************************************************************************)
PTag == <<"<", "p", ">">>

\* f'<h{header_idx}>'
HTag(header_idx) == <<"<", "h">> \o Decimal(header_idx) \o <<">">>

get_closing_tag(opening_tag) ==
    LET tag_type == BeforeFirst(AfterFirst(opening_tag, "<"), ">")
    IN  <<"<", "/">> \o tag_type \o <<">">>

(***************************************************************************)
(* Regular expressions of _process_page_content.                           *)
(***************************************************************************)
\* re.match(r'<h\d>', item)
MatchHeading(item) ==
    /\ Len(item) >= 4
    /\ item[1] = "<" /\ item[2] = "h" /\ item[3] \in Digit /\ item[4] = ">"

\* re.match(r'<p>', item)
MatchParagraph(item) == StartsAt(item, 1, PTag)

\* length of the match of <\/?h\d> at position j of s, 0 if there is none
HeadingTagAt(s, j) ==
    IF /\ j + 3 <= Len(s)
       /\ s[j] = "<" /\ s[j + 1] = "h" /\ s[j + 2] \in Digit /\ s[j + 3] = ">"
    THEN 4
    ELSE IF /\ j + 4 <= Len(s)
            /\ s[j] = "<" /\ s[j + 1] = "/" /\ s[j + 2] = "h"
            /\ s[j + 3] \in Digit /\ s[j + 4] = ">"
    THEN 5
    ELSE 0

\* length of the match of <\/?p> at position j of s, 0 if there is none
ParagraphTagAt(s, j) ==
    IF StartsAt(s, j, <<"<", "p", ">">>) THEN 3
    ELSE IF StartsAt(s, j, <<"<", "/", "p", ">">>) THEN 4
    ELSE 0

\* re.sub(r'<\/?h\d>', '', s), scanning from position j
RECURSIVE SubHeadingFrom(_, _)
SubHeadingFrom(s, j) ==
    IF j > Len(s) THEN <<>>
    ELSE IF HeadingTagAt(s, j) > 0 THEN SubHeadingFrom(s, j + HeadingTagAt(s, j))
    ELSE <<s[j]>> \o SubHeadingFrom(s, j + 1)

StripHeading(item) == SubHeadingFrom(item, 1)

\* re.sub(r'<\/?p>', '', s), scanning from position j
RECURSIVE SubParagraphFrom(_, _)
SubParagraphFrom(s, j) ==
    IF j > Len(s) THEN <<>>
    ELSE IF ParagraphTagAt(s, j) > 0 THEN SubParagraphFrom(s, j + ParagraphTagAt(s, j))
    ELSE <<s[j]>> \o SubParagraphFrom(s, j + 1)

StripParagraph(item) == SubParagraphFrom(item, 1)

(***************************************************************************)
(* HTMLToJsonConverter: the repair stages as functions of the list.        *)
(***************************************************************************)
Section(title, text, page) == [title |-> title, text |-> text, page |-> page]

\* a slip in the key of _remove_duplicates: the page is left out of it
tuple_item_without_page(item) == <<<<"title", item.title>>, <<"text", item.text>>>>

\* tuple(item.items()): every section is built with the keys title, text, page
tuple_item(item) == <<<<"title", item.title>>, <<"text", item.text>>, <<"page", item.page>>>>

\* the for loop of _merge_empty_structured_data from index j (1-based)
RECURSIVE MergeLoop(_, _, _, _)

\* a slip in the loop: skip_next is not set after a merge, so the second
\* section of a pair is visited again
MergeLoop_without_skip(sd, j, skip_next, processed_entries) ==
    IF j > Len(sd) THEN processed_entries
    ELSE IF sd[j].text = <<>> /\ j + 1 <= Len(sd) /\ sd[j + 1].text = <<>>
    THEN MergeLoop(sd, j + 1, FALSE,
                   Append(processed_entries,
                          [title |-> sd[j].title, text |-> sd[j + 1].title,
                           page |-> sd[j].page]))
    ELSE MergeLoop(sd, j + 1, FALSE, Append(processed_entries, sd[j]))

MergeLoop(sd, j, skip_next, processed_entries) ==
    IF j > Len(sd) THEN processed_entries
    ELSE IF skip_next THEN MergeLoop(sd, j + 1, FALSE, processed_entries)
    ELSE IF sd[j].text = <<>> /\ j + 1 <= Len(sd) /\ sd[j + 1].text = <<>>
    THEN MergeLoop(sd, j + 1, TRUE,
                   Append(processed_entries,
                          Section(sd[j].title, sd[j + 1].title, sd[j].page)))
    ELSE MergeLoop(sd, j + 1, FALSE, Append(processed_entries, sd[j]))

merge_empty_structured_data(sd) == MergeLoop(sd, 1, FALSE, <<>>)

\* the for loop of _remove_duplicates from index j (1-based)
RECURSIVE DedupLoop(_, _, _, _)
DedupLoop(sd, j, seen, unique_data) ==
    IF j > Len(sd) THEN unique_data
    ELSE IF tuple_item(sd[j]) \notin seen
    THEN DedupLoop(sd, j + 1, seen \cup {tuple_item(sd[j])}, Append(unique_data, sd[j]))
    ELSE DedupLoop(sd, j + 1, seen, unique_data)

remove_duplicates(sd) == DedupLoop(sd, 1, {}, <<>>)

\* a slip in the deletion: del d[c:] removes the section and all behind it
DeleteAt_to_the_end(d, c) == SubSeq(d, 1, c)

\* del d[c] with a 0-based cursor c
DeleteAt(d, c) == SubSeq(d, 1, c) \o SubSeq(d, c + 2, Len(d))

\* a slip in the loop condition: the loop stops one section early
TitlesGuard_one_short(d, c) == c < Len(d) - 2

\* the loop condition of _process_titles (0-based cursor c)
TitlesGuard(d, c) == c < Len(d) - 1

\* a slip in the loop body: the cursor advances after a deletion too, so the
\* merged section is not examined again
TitlesBody_always_advancing(d, c) ==
    IF d[c + 1].text = <<>>
    THEN [d |-> DeleteAt([d EXCEPT ![c + 2].title =
                              d[c + 1].title \o <<" ">> \o d[c + 2].title], c),
          c |-> c + 1]
    ELSE [d |-> d, c |-> c + 1]

\* one pass through the body of the while loop of _process_titles:
\* the list and the cursor after it
TitlesBody(d, c) ==
    IF d[c + 1].text = <<>>
    THEN [d |-> DeleteAt([d EXCEPT ![c + 2].title =
                              d[c + 1].title \o <<" ">> \o d[c + 2].title], c),
          c |-> c]
    ELSE [d |-> d, c |-> c + 1]

\* _process_titles run to its return
RECURSIVE TitlesLoop(_, _)
TitlesLoop(d, c) ==
    IF TitlesGuard(d, c) THEN TitlesLoop(TitlesBody(d, c).d, TitlesBody(d, c).c)
    ELSE d

process_titles(d) == TitlesLoop(d, 0)

\* lines 307-309 of process_list_to_json
RepairPass(sd) == process_titles(remove_duplicates(merge_empty_structured_data(sd)))

\* _flatten_list
RECURSIVE flatten_list(_)
flatten_list(nested_list) ==
    IF nested_list = <<>> THEN <<>>
    ELSE Head(nested_list) \o flatten_list(Tail(nested_list))

(***************************************************************************)
(* HTMLToJsonConverter._process_page_content, one item at a time.          *)
(***************************************************************************)
EmptySection(page) == Section(<<>>, <<>>, page)

\* Python truth of: current_section["title"] or current_section["text"]
NonEmptySection(cs) == cs.title # <<>> \/ cs.text # <<>>

\* a slip in the loop body: a paragraph is never promoted to the title
ItemBody_without_promotion(item, cs, ts, spd, page) ==
    IF MatchHeading(item)
    THEN [current_section |->
              [(IF NonEmptySection(cs) THEN EmptySection(page) ELSE cs)
                  EXCEPT !.title = StripHeading(item)],
          title_set |-> TRUE,
          structured_page_data |-> IF NonEmptySection(cs) THEN Append(spd, cs) ELSE spd]
    ELSE IF MatchParagraph(item)
    THEN [current_section |->
              [cs EXCEPT !.text = cs.text \o StripParagraph(item) \o <<" ">>],
          title_set |-> ts,
          structured_page_data |-> spd]
    ELSE [current_section |-> cs, title_set |-> ts, structured_page_data |-> spd]

\* the body of the for loop over flat_page, for one item: the locals after it
ItemBody(item, cs, ts, spd, page) ==
    IF MatchHeading(item)
    THEN [current_section |->
              [(IF NonEmptySection(cs) THEN EmptySection(page) ELSE cs)
                  EXCEPT !.title = StripHeading(item)],
          title_set |-> TRUE,
          structured_page_data |-> IF NonEmptySection(cs) THEN Append(spd, cs) ELSE spd]
    ELSE IF MatchParagraph(item)
    THEN IF ~ts
         THEN [current_section |-> [cs EXCEPT !.title = StripParagraph(item)],
               title_set |-> TRUE,
               structured_page_data |-> spd]
         ELSE [current_section |->
                   [cs EXCEPT !.text = cs.text \o StripParagraph(item) \o <<" ">>],
               title_set |-> ts,
               structured_page_data |-> spd]
    ELSE [current_section |-> cs, title_set |-> ts, structured_page_data |-> spd]

\* lines 417-419: the final flush and the returned list
PageResult(cs, spd) == IF NonEmptySection(cs) THEN Append(spd, cs) ELSE spd

(***************************************************************************)
(* PDFParser: identifiers, the style catalog and the tag map.              *)
(***************************************************************************)
\* the characters of font names and identifiers in code point order
Chars == <<"-", ".", "0", "1", "2", "3", "4", "5", "6", "7", "8", "9",
           "A", "B", "_">>

CodePoint(c) == CHOOSE k \in 1..Len(Chars) : Chars[k] = c

\* a < b for Python strings
RECURSIVE StrLess(_, _)
StrLess(a, b) ==
    IF b = <<>> THEN FALSE
    ELSE IF a = <<>> THEN TRUE
    ELSE IF Head(a) = Head(b) THEN StrLess(Tail(a), Tail(b))
    ELSE CodePoint(Head(a)) < CodePoint(Head(b))

\* str(x) of a float with an integral value, as PyMuPDF's span sizes print
FloatStr(x) == Decimal(x) \o <<".", "0">>

\* f"{size}_{font}_{color}" (lines 129, 166 and 203)
Identifier(size, font, color) ==
    FloatStr(size) \o <<"_">> \o font \o <<"_">> \o Decimal(color)

\* _create_identifier; f"{span['size']}" without granularity
create_identifier(span, granularity) ==
    IF granularity THEN Identifier(span.size, span.font, span.color)
    ELSE FloatStr(span.size)

\* _extract_style with granularity (process_document passes granularity=True)
extract_style(span) == [size |-> span.size, font |-> span.font, color |-> span.color]

\* for line in block["lines"]: for span in line["spans"]
RECURSIVE LineSpans(_)
LineSpans(lines) == IF lines = <<>> THEN <<>> ELSE Head(lines) \o LineSpans(Tail(lines))

\* the spans _extract_fonts visits: those of the blocks of type 0, in order
RECURSIVE TextSpans(_)
TextSpans(blocks) ==
    IF blocks = <<>> THEN <<>>
    ELSE (IF Head(blocks).type = 0 THEN LineSpans(Head(blocks).lines) ELSE <<>>)
             \o TextSpans(Tail(blocks))

\* font_counts[identifier] += 1 on a defaultdict kept as the list of its items
Increment(counts, identifier) ==
    IF \E k \in 1..Len(counts) : counts[k][1] = identifier
    THEN [k \in 1..Len(counts) |->
             IF counts[k][1] = identifier THEN <<identifier, counts[k][2] + 1>>
             ELSE counts[k]]
    ELSE Append(counts, <<identifier, 1>>)

\* styles[identifier] = style
Assign(map, key, value) ==
    [x \in DOMAIN map \cup {key} |-> IF x = key THEN value ELSE map[x]]

\* lines 56-62: the catalog after the spans from index k
RECURSIVE CatalogLoop(_, _, _, _)
CatalogLoop(spans, k, counts, st) ==
    IF k > Len(spans) THEN [font_counts |-> counts, styles |-> st]
    ELSE CatalogLoop(spans, k + 1,
                     Increment(counts, create_identifier(spans[k], TRUE)),
                     Assign(st, create_identifier(spans[k], TRUE), extract_style(spans[k])))

\* insertion of x into a list sorted by descending count, behind its equals
RECURSIVE InsertByCount(_, _)
InsertByCount(sorted, x) ==
    IF sorted = <<>> THEN <<x>>
    ELSE IF Head(sorted)[2] >= x[2] THEN <<Head(sorted)>> \o InsertByCount(Tail(sorted), x)
    ELSE <<x>> \o sorted

\* sorted(font_counts.items(), key=lambda x: x[1], reverse=True): stable
RECURSIVE SortByCount(_, _)
SortByCount(items, sorted) ==
    IF items = <<>> THEN sorted
    ELSE SortByCount(Tail(items), InsertByCount(sorted, Head(items)))

\* _extract_fonts(page, granularity=True) when it returns
extract_fonts(page) ==
    LET c == CatalogLoop(TextSpans(page.blocks), 1, <<>>, <<>>)
    IN  [font_counts |-> SortByCount(c.font_counts, <<>>), styles |-> c.styles]

\* a slip in _extract_fonts: spans of whitespace only are not counted, so a
\* page whose spans all are whitespace has no fonts
NoFonts_without_text(page) ==
    \A k \in 1..Len(TextSpans(page.blocks)) :
        \A j \in 1..Len(TextSpans(page.blocks)[k].text) :
            TextSpans(page.blocks)[k].text[j] = " "

\* line 64: if not font_counts
NoFonts(page) == TextSpans(page.blocks) = <<>>

\* a slip in _determine_tag: the size is compared before the whole style, so a
\* style of the dominant size is a heading even when it is the dominant style
determine_tag_size_first(size, font, color, primary_style, header_idx, subheader_idx) ==
    IF size >= primary_style.size
    THEN <<HTag(header_idx), header_idx + 1, subheader_idx>>
    ELSE <<PTag, header_idx, subheader_idx>>

\* _determine_tag: the tag and the updated indices
determine_tag(size, font, color, primary_style, header_idx, subheader_idx) ==
    LET p_size == primary_style.size
        p_font == primary_style.font
        p_color == primary_style.color
    IN  IF <<size, font, color>> = <<p_size, p_font, p_color>>
        THEN <<PTag, header_idx, subheader_idx>>
        ELSE IF size > p_size \/ (size = p_size /\ (font # p_font \/ color # p_color))
        THEN <<HTag(header_idx), header_idx + 1, subheader_idx>>
        ELSE <<PTag, header_idx, subheader_idx>>

\* a slip in the sort key: styles of one size are sorted by descending font
StyleBefore_font_descending(a, b) ==
    \/ -a[1] < -b[1]
    \/ a[1] = b[1] /\ StrLess(b[2], a[2])
    \/ a[1] = b[1] /\ a[2] = b[2] /\ a[3] < b[3]

\* the sort key (-x[0], x[1], x[2]) of line 124 puts a before b
StyleBefore(a, b) ==
    \/ -a[1] < -b[1]
    \/ a[1] = b[1] /\ StrLess(a[2], b[2])
    \/ a[1] = b[1] /\ a[2] = b[2] /\ a[3] < b[3]

\* sorted(unique_styles, key=...): the keys of distinct styles differ
SortStyles(unique_styles) ==
    [k \in 1..Cardinality(unique_styles) |->
        CHOOSE x \in unique_styles :
            Cardinality({y \in unique_styles : StyleBefore(y, x)}) = k - 1]

\* lines 128-131: the map after the styles from index k
RECURSIVE TagLoop(_, _, _, _, _, _)
TagLoop(sorted_unique_styles, k, primary_style, header_idx, subheader_idx, size_tag_map) ==
    IF k > Len(sorted_unique_styles) THEN size_tag_map
    ELSE LET style == sorted_unique_styles[k]
             r == determine_tag(style[1], style[2], style[3], primary_style,
                                header_idx, subheader_idx)
         IN  TagLoop(sorted_unique_styles, k + 1, primary_style, r[2], r[3],
                     Assign(size_tag_map, Identifier(style[1], style[2], style[3]), r[1]))

create_size_tag_map(fc, st) ==
    LET primary_style == st[fc[1][1]]
        unique_styles == {<<st[x].size, st[x].font, st[x].color>> : x \in DOMAIN st}
    IN  TagLoop(SortStyles(unique_styles), 1, primary_style, 1, 1, <<>>)

(***************************************************************************)
(* PDFParser: the block segmenter.                                         *)
(***************************************************************************)
None == <<"None">>

\* s.strip() for the whitespace " "
RECURSIVE LStrip(_)
LStrip(s) == IF s # <<>> /\ Head(s) = " " THEN LStrip(Tail(s)) ELSE s

RECURSIVE RStrip(_)
RStrip(s) == IF s # <<>> /\ s[Len(s)] = " " THEN RStrip(SubSeq(s, 1, Len(s) - 1)) ELSE s

Strip(s) == RStrip(LStrip(s))

\* a slip in _is_new_block: every span starts a new fragment
is_new_block_always(current_identifier, previous_identifier) == TRUE

is_new_block(current_identifier, previous_identifier) ==
    current_identifier # previous_identifier

\* _start_new_block: its previous_identifier is the local None of line 259,
\* so closing_tag stays ""
start_new_block(span, identifier, size_tag_map) ==
    LET previous_identifier == None
        closing_tag == IF previous_identifier # None /\ previous_identifier \in DOMAIN size_tag_map
                       THEN get_closing_tag(size_tag_map[previous_identifier])
                       ELSE <<>>
        opening_tag == IF identifier \in DOMAIN size_tag_map THEN size_tag_map[identifier]
                       ELSE <<>>
    IN  closing_tag \o opening_tag \o span.text

\* lines 208-209 and 224-225: the closing tag of the open fragment
Closed(block_string, previous_identifier, size_tag_map) ==
    IF previous_identifier \in DOMAIN size_tag_map
    THEN block_string \o get_closing_tag(size_tag_map[previous_identifier])
    ELSE block_string

\* lines 212-214 and 227-228
Flushed(block_strings, block_string) ==
    IF block_string # <<>> THEN Append(block_strings, block_string) ELSE block_strings

\* lines 201-230: _process_block from the span at index k
RECURSIVE BlockLoop(_, _, _, _, _, _)
BlockLoop(spans, k, size_tag_map, block_strings, block_string, previous_identifier) ==
    IF k > Len(spans)
    THEN Flushed(block_strings, Closed(block_string, previous_identifier, size_tag_map))
    ELSE LET span == spans[k]
             identifier == Identifier(span.size, span.font, span.color)
         IN  IF Strip(span.text) # <<>>
             THEN IF is_new_block(identifier, previous_identifier)
                  THEN BlockLoop(spans, k + 1, size_tag_map,
                                 Flushed(block_strings,
                                         Closed(block_string, previous_identifier,
                                                size_tag_map)),
                                 start_new_block(span, identifier, size_tag_map),
                                 identifier)
                  ELSE BlockLoop(spans, k + 1, size_tag_map, block_strings,
                                 block_string \o <<" ">> \o span.text, identifier)
             ELSE BlockLoop(spans, k + 1, size_tag_map, block_strings, block_string,
                            previous_identifier)

process_block(block, size_tag_map) ==
    BlockLoop(LineSpans(block.lines), 1, size_tag_map, <<>>, <<>>, None)

(***************************************************************************)
(* Inputs.                                                                 *)
(***************************************************************************)
Titles == {<<>>, <<"a">>, <<"b">>, <<"a", " ", "b">>}
Texts == {<<>>, <<"x">>}
PageNumbers == {0, 1}
Sections == [title : Titles, text : Texts, page : PageNumbers]

\* the tags a page's items carry: <p>, and headings of one and of two digits
HeadingLevels == {1, 10}
ItemTags == {PTag} \cup {HTag(k) : k \in HeadingLevels}
ItemTexts == {<<"a">>, <<"b">>}

\* an item as the PDFParser flushes it: opening tag, text, closing tag
Item(tag, text) == tag \o text \o get_closing_tag(tag)
Items == {Item(tag, text) : tag \in ItemTags, text \in ItemTexts}

\* how consecutive items (spans) of a document are separated
Gaps == {"same block", "new block", "new page"}

\* the pages (lists of blocks) holding the elements f separated by g; an
\* empty_page lies before an element that is "past an empty page"
RECURSIVE Paginate(_, _, _, _, _)
Paginate(f, g, k, pages, empty_page) ==
    IF k > Len(f) THEN pages
    ELSE LET np == Len(pages)
             nb == Len(pages[np])
         IN  IF k = 1
             THEN Paginate(f, g, 2, <<<<<<f[1]>>>>>>, empty_page)
             ELSE IF g[k - 1] = "same block"
             THEN Paginate(f, g, k + 1,
                           [pages EXCEPT ![np][nb] = Append(pages[np][nb], f[k])],
                           empty_page)
             ELSE IF g[k - 1] = "new block"
             THEN Paginate(f, g, k + 1,
                           [pages EXCEPT ![np] = Append(pages[np], <<f[k]>>)],
                           empty_page)
             ELSE IF g[k - 1] = "new page"
             THEN Paginate(f, g, k + 1, Append(pages, <<<<f[k]>>>>), empty_page)
             ELSE Paginate(f, g, k + 1, pages \o <<empty_page, <<<<f[k]>>>>>>, empty_page)

\* all_pages_data as process_document builds it: page numbers from 0
PageData(pages) == [q \in 1..Len(pages) |-> [page |-> q - 1, content |-> pages[q]]]

\* the pages handed to the converter: the items f separated by g
DataList(f, g) == PageData(Paginate(f, g, 1, << <<>> >>, <<>>))

\* the styles of the spans: a small size, three styles of one size that
\* differ in font or in color, and a large size
StyleSet == {[size |-> 10, font |-> <<"A">>, color |-> 0],
             [size |-> 12, font |-> <<"A">>, color |-> 0],
             [size |-> 12, font |-> <<"A">>, color |-> 1],
             [size |-> 12, font |-> <<"B">>, color |-> 0],
             [size |-> 14, font |-> <<"B">>, color |-> 0]}

\* the two styles of the documents that vary in layout
LayoutStyles == {st \in StyleSet : st.font = <<"A">> /\ st.color = 0}

\* the k-th span of a document says the k-th letter, or is whitespace only
Letter(k) == <<"a", "b", "c", "d", "e", "f", "g", "h">>[k]

Span(k, style, blank) ==
    [text |-> IF blank THEN <<" ">> ELSE <<Letter(k)>>,
     size |-> style.size, font |-> style.font, color |-> style.color]

\* the list of spans with the styles and whitespace flags c
SpanList(c) == [k \in 1..Len(c) |-> Span(k, c[k][1], c[k][2])]

\* the lines of a block: its spans, two to a line
RECURSIVE Lines(_)
Lines(spans) ==
    IF Len(spans) <= 2 THEN (IF spans = <<>> THEN <<>> ELSE <<spans>>)
    ELSE <<SubSeq(spans, 1, 2)>> \o Lines(SubSeq(spans, 3, Len(spans)))

TextBlock(spans) == [type |-> 0, lines |-> Lines(spans)]

\* an image block: not of type 0, and without text lines
ImageBlock == [type |-> 1, lines |-> <<>>]

DocGaps == Gaps \cup {"past an empty page"}

\* the pages of a document: zero-based numbers, text blocks of spans
Pages(pp) ==
    [q \in 1..Len(pp) |->
        [number |-> q - 1,
         blocks |-> [b \in 1..Len(pp[q]) |->
                        IF pp[q][b] = <<>> THEN ImageBlock ELSE TextBlock(pp[q][b])]]]

\* the document of the spans f separated by g; a page that only holds an
\* image block is an empty page
Doc(f, g) == Pages(Paginate(f, g, 1, << <<>> >>, << <<>> >>))

(***************************************************************************)
(* The state machine of HTMLToJsonConverter.                               *)
(***************************************************************************)
ParserIdle ==
    /\ doc = <<>>
    /\ page_idx = 1
    /\ font_counts = <<>>
    /\ styles = <<>>
    /\ size_tag = <<>>
    /\ block_idx = 1
    /\ page_blocks = <<>>
    /\ html_pages_list = <<>>

\* a variable of process_pdf_to_json holds no value (None, or not yet bound),
\* or it holds the value v
NoValue == <<>>
Value(v) == <<v>>

\* process_pdf_to_json has bound nothing, returned nothing and shown no error
AppIdle ==
    /\ all_pages_data = NoValue
    /\ json_output = NoValue
    /\ st_error = FALSE

InitConverterVars(dl, sd) ==
    /\ data_list = dl
    /\ structured_data = <<>>
    /\ pg = 1
    /\ flat_page = <<>>
    /\ item_idx = 1
    /\ current_section = EmptySection(0)
    /\ title_set = FALSE
    /\ structured_page_data = <<>>
    /\ page_out = <<>>
    /\ data = sd
    /\ arg = sd
    /\ i = 0

InitConverter(e, dl, sd) ==
    entry = e /\ InitConverterVars(dl, sd) /\ ParserIdle /\ AppIdle

\* process_list_to_json is called on no page, on one page without items, or
\* on the pages of up to MaxItems items; the repair stages are called on a
\* list of up to MaxSections sections
Init ==
    \/ \E dl \in {<<>>, PageData(<< <<>> >>)} :
          InitConverter("process_list_to_json", dl, <<>>) /\ pc = "pages"
    \/ \E n \in 1..MaxItems : \E f \in [1..n -> Items] : \E g \in [1..(n - 1) -> Gaps] :
          InitConverter("process_list_to_json", DataList(f, g), <<>>) /\ pc = "pages"
    \/ \E n \in 0..MaxSections : \E sd \in [1..n -> Sections] :
          \/ InitConverter("repair", <<>>, sd) /\ pc = "merge"
          \/ InitConverter("remove_duplicates", <<>>, sd) /\ pc = "dedup"
          \/ InitConverter("process_titles", <<>>, sd) /\ pc = "titles"

\* line 304-305: the call of _process_page_content for the next page (lines 397-401)
CallPage ==
    /\ pc = "pages"
    /\ pg <= Len(data_list)
    /\ flat_page' = flatten_list(data_list[pg].content)
    /\ item_idx' = 1
    /\ current_section' = EmptySection(data_list[pg].page)
    /\ title_set' = FALSE
    /\ structured_page_data' = <<>>
    /\ pc' = "items"
    /\ UNCHANGED <<pvars, avars>>
    /\ UNCHANGED <<entry, data_list, structured_data, pg, page_out, data, i, arg>>

\* lines 402-415: one item of the page
PageItem ==
    /\ pc = "items"
    /\ item_idx <= Len(flat_page)
    /\ LET r == ItemBody(flat_page[item_idx], current_section, title_set,
                         structured_page_data, data_list[pg].page)
       IN  /\ current_section' = r.current_section
           /\ title_set' = r.title_set
           /\ structured_page_data' = r.structured_page_data
    /\ item_idx' = item_idx + 1
    /\ UNCHANGED <<pvars, avars>>
    /\ UNCHANGED <<entry, pc, data_list, structured_data, pg, flat_page, page_out,
                   data, i, arg>>

\* lines 417-419 and line 305: the page's sections are returned and collected
PageReturn ==
    /\ pc = "items"
    /\ item_idx > Len(flat_page)
    /\ LET r == PageResult(current_section, structured_page_data)
       IN  /\ structured_page_data' = r
           /\ page_out' = Append(page_out, r)
           /\ structured_data' = structured_data \o r
    /\ pg' = pg + 1
    /\ pc' = "pages"
    /\ UNCHANGED <<pvars, avars>>
    /\ UNCHANGED <<entry, data_list, flat_page, item_idx, current_section, title_set,
                   data, i, arg>>

\* line 307: the loop over the pages is over, the repair stages start
PagesDone ==
    /\ pc = "pages"
    /\ pg > Len(data_list)
    /\ data' = structured_data
    /\ arg' = structured_data
    /\ pc' = "merge"
    /\ UNCHANGED <<pvars, avars>>
    /\ UNCHANGED <<entry, data_list, structured_data, pg, flat_page, item_idx,
                   current_section, title_set, structured_page_data, page_out, i>>

\* line 307
Merge ==
    /\ pc = "merge"
    /\ data' = merge_empty_structured_data(data)
    /\ pc' = "dedup"
    /\ UNCHANGED <<pvars, avars>>
    /\ UNCHANGED <<entry, data_list, structured_data, pg, flat_page, item_idx,
                   current_section, title_set, structured_page_data, page_out, i, arg>>

\* line 308
Dedup ==
    /\ pc = "dedup"
    /\ data' = remove_duplicates(data)
    /\ pc' = IF entry = "remove_duplicates" THEN "done" ELSE "titles"
    /\ UNCHANGED <<pvars, avars>>
    /\ UNCHANGED <<entry, data_list, structured_data, pg, flat_page, item_idx,
                   current_section, title_set, structured_page_data, page_out, i, arg>>

\* lines 323-328: one pass through the while loop of _process_titles
TitlesStep ==
    /\ pc = "titles"
    /\ TitlesGuard(data, i)
    /\ data' = TitlesBody(data, i).d
    /\ i' = TitlesBody(data, i).c
    /\ UNCHANGED <<pvars, avars>>
    /\ UNCHANGED <<entry, pc, data_list, structured_data, pg, flat_page, item_idx,
                   current_section, title_set, structured_page_data, page_out, arg>>

\* line 329
TitlesReturn ==
    /\ pc = "titles"
    /\ ~TitlesGuard(data, i)
    /\ pc' = "done"
    /\ UNCHANGED <<pvars, avars>>
    /\ UNCHANGED <<entry, data_list, structured_data, pg, flat_page, item_idx,
                   current_section, title_set, structured_page_data, page_out, data,
                   i, arg>>

Next ==
    \/ CallPage
    \/ PageItem
    \/ PageReturn
    \/ PagesDone
    \/ Merge
    \/ Dedup
    \/ TitlesStep
    \/ TitlesReturn

Spec == Init /\ [][Next]_vars

\* _process_titles called on a list of up to MaxSections sections
InitTitles ==
    \E n \in 0..MaxSections : \E sd \in [1..n -> Sections] :
        InitConverter("process_titles", <<>>, sd) /\ pc = "titles"

NextTitles ==
    \/ TitlesStep
    \/ TitlesReturn

\* the interpreter always runs the next statement of the running call
TitlesSpec == InitTitles /\ [][NextTitles]_vars /\ WF_vars(NextTitles)

Done == pc = "done"
(***************************************************************************)
(* The state machine of PDFParser.process_document.                        *)
(***************************************************************************)
ConverterIdle == InitConverterVars(<<>>, <<>>)

\* the method e starts process_document on the document d
InitParserAs(e, d) ==
    /\ entry = e
    /\ pc = "fonts"
    /\ ConverterIdle
    /\ AppIdle
    /\ doc = d
    /\ page_idx = 1
    /\ font_counts = <<>>
    /\ styles = <<>>
    /\ size_tag = <<>>
    /\ block_idx = 1
    /\ page_blocks = <<>>
    /\ html_pages_list = <<>>

InitParser(d) == InitParserAs("process_document", d)

\* the layout of two pages of one block each, two spans on the first page
TwoPages(n) == [k \in 1..(n - 1) |-> IF k = 2 THEN "new page" ELSE "same block"]

\* the documents: without pages; of one page without blocks; of one block of
\* up to MaxSpans spans of any style; of two pages of spans of any style; and
\* of up to MaxSpans spans of two styles, some whitespace only, laid out in
\* blocks and pages
InitParse ==
    \/ \E d \in {<<>>, Pages(<< <<>> >>)} : InitParser(d)
    \/ \E n \in 1..MaxSpans : \E c \in [1..n -> StyleSet \X {FALSE}] :
          InitParser(Pages(<< << SpanList(c) >> >>))
    \/ \E c \in [1..(MaxSpans + 1) -> StyleSet \X {FALSE}] :
          InitParser(Doc(SpanList(c), TwoPages(MaxSpans + 1)))
    \/ \E n \in 1..MaxSpans : \E c \in [1..n -> LayoutStyles \X BOOLEAN] :
          \E g \in [1..(n - 1) -> DocGaps] : InitParser(Doc(SpanList(c), g))

\* line 36: _extract_fonts returns the catalog of the next page
ExtractFonts ==
    /\ pc = "fonts"
    /\ page_idx <= Len(doc)
    /\ ~NoFonts(doc[page_idx])
    /\ LET r == extract_fonts(doc[page_idx])
       IN  font_counts' = r.font_counts /\ styles' = r.styles
    /\ pc' = "tagmap"
    /\ UNCHANGED avars
    /\ UNCHANGED <<entry, cvars, doc, page_idx, size_tag, block_idx, page_blocks,
                   html_pages_list>>

\* lines 64-65: _extract_fonts raises ValueError, which leaves process_document
RaiseNoFonts ==
    /\ pc = "fonts"
    /\ page_idx <= Len(doc)
    /\ NoFonts(doc[page_idx])
    /\ pc' = "raised"
    /\ UNCHANGED <<entry, cvars, pvars, avars>>

\* line 37, and lines 146-147: the loop over the blocks starts
CreateSizeTagMap ==
    /\ pc = "tagmap"
    /\ size_tag' = create_size_tag_map(font_counts, styles)
    /\ page_blocks' = <<>>
    /\ block_idx' = 1
    /\ pc' = "blocks"
    /\ UNCHANGED avars
    /\ UNCHANGED <<entry, cvars, doc, page_idx, font_counts, styles, html_pages_list>>

\* lines 148-151: one block of the page
ProcessBlock ==
    /\ pc = "blocks"
    /\ block_idx <= Len(doc[page_idx].blocks)
    /\ LET block == doc[page_idx].blocks[block_idx]
           block_string == IF block.type = 0 THEN process_block(block, size_tag) ELSE <<>>
       IN  page_blocks' = IF block_string # <<>> THEN Append(page_blocks, block_string)
                          ELSE page_blocks
    /\ block_idx' = block_idx + 1
    /\ UNCHANGED avars
    /\ UNCHANGED <<entry, pc, cvars, doc, page_idx, font_counts, styles, size_tag,
                   html_pages_list>>

\* lines 152 and 39: the page's entry is appended
AppendPage ==
    /\ pc = "blocks"
    /\ block_idx > Len(doc[page_idx].blocks)
    /\ html_pages_list' = Append(html_pages_list,
                                 [page |-> doc[page_idx].number, content |-> page_blocks])
    /\ page_idx' = page_idx + 1
    /\ pc' = "fonts"
    /\ UNCHANGED avars
    /\ UNCHANGED <<entry, cvars, doc, font_counts, styles, size_tag, block_idx,
                   page_blocks>>

\* line 40
ReturnPages ==
    /\ pc = "fonts"
    /\ page_idx > Len(doc)
    /\ pc' = "done"
    /\ UNCHANGED <<entry, cvars, pvars, avars>>

NextParse ==
    \/ ExtractFonts
    \/ RaiseNoFonts
    \/ CreateSizeTagMap
    \/ ProcessBlock
    \/ AppendPage
    \/ ReturnPages

ParseSpec == InitParse /\ [][NextParse]_vars

(***************************************************************************)
(* MetadataEnhancedJsonConverter and PDFToJsonConverterApp                 *)
(* (src/src/app.py).  A JSON text is kept as the value it encodes: the     *)
(* texts are only handed from json.dumps to json.loads and to the caller.  *)
(***************************************************************************)
\* os.path.basename: what follows the last "/"
RECURSIVE basename(_)
basename(path) ==
    IF FindFrom(path, "/", 1) = 0 THEN path ELSE basename(AfterFirst(path, "/"))

\* MetadataEnhancedJsonConverter.__init__: product and document
first_title(json_data) == IF json_data # <<>> THEN json_data[1].title ELSE <<>>

\* enhance_json and get_enhanced_json: four fields are added to every entry
get_enhanced_json(json_data, file_path, base_url) ==
    [k \in 1..Len(json_data) |->
        [title |-> json_data[k].title,
         text |-> json_data[k].text,
         page |-> json_data[k].page,
         file |-> basename(file_path),
         product |-> first_title(json_data),
         document |-> first_title(json_data),
         link |-> base_url \o basename(file_path)]]

\* the name of the uploaded file and the base URL the user entered
UploadedName == <<"d", ".", "p", "d", "f">>
BaseUrl == <<"u", "/">>

\* process_pdf_to_json is called on the documents process_document is called on
InitApp ==
    \/ \E d \in {<<>>, Pages(<< <<>> >>)} : InitParserAs("process_pdf_to_json", d)
    \/ \E n \in 1..MaxSpans : \E c \in [1..n -> StyleSet \X {FALSE}] :
          InitParserAs("process_pdf_to_json", Pages(<< << SpanList(c) >> >>))
    \/ \E n \in 1..MaxSpans : \E c \in [1..n -> LayoutStyles \X BOOLEAN] :
          \E g \in [1..(n - 1) -> DocGaps] :
              InitParserAs("process_pdf_to_json", Doc(SpanList(c), g))

\* app.py line 27 and lines 29-30: process_document has returned, its pages
\* are bound and handed to the converter
AppConvert ==
    /\ entry = "process_pdf_to_json"
    /\ pc = "done"
    /\ all_pages_data = NoValue
    /\ all_pages_data' = Value(html_pages_list)
    /\ data_list' = html_pages_list
    /\ pc' = "pages"
    /\ UNCHANGED <<entry, pvars, json_output, st_error>>
    /\ UNCHANGED <<structured_data, pg, flat_page, item_idx, current_section,
                   title_set, structured_page_data, page_out, data, i, arg>>

\* app.py lines 32-33: process_list_to_json has returned, the enhanced JSON is
\* returned
AppReturn ==
    /\ entry = "process_pdf_to_json"
    /\ pc = "done"
    /\ all_pages_data # NoValue
    /\ json_output' = Value(get_enhanced_json(data, UploadedName, BaseUrl))
    /\ pc' = "returned"
    /\ UNCHANGED <<entry, cvars, pvars, all_pages_data, st_error>>

\* app.py lines 34-36: the exception is caught, reported, and None is returned
AppCatch ==
    /\ entry = "process_pdf_to_json"
    /\ pc = "raised"
    /\ st_error' = TRUE
    /\ json_output' = NoValue
    /\ pc' = "failed"
    /\ UNCHANGED <<entry, cvars, pvars, all_pages_data>>

NextApp ==
    \/ ExtractFonts
    \/ RaiseNoFonts
    \/ CreateSizeTagMap
    \/ ProcessBlock
    \/ AppendPage
    \/ ReturnPages
    \/ AppConvert
    \/ CallPage
    \/ PageItem
    \/ PageReturn
    \/ PagesDone
    \/ Merge
    \/ Dedup
    \/ TitlesStep
    \/ TitlesReturn
    \/ AppReturn
    \/ AppCatch

AppSpec == InitApp /\ [][NextApp]_vars

(***************************************************************************)
(* Vocabulary of the properties.                                           *)
(***************************************************************************)
RECURSIVE Concat(_)
Concat(ss) == IF ss = <<>> THEN <<>> ELSE Head(ss) \o Concat(Tail(ss))

\* the members of the set of indices S in increasing order
Ascending(S) ==
    [k \in 1..Cardinality(S) |-> CHOOSE j \in S : Cardinality({m \in S : m <= j}) = k]

\* the (title, text, page) tuple of a section
Key(s) == <<s.title, s.text, s.page>>

\* s without its spaces
RECURSIVE Squeeze(_)
Squeeze(s) ==
    IF s = <<>> THEN <<>>
    ELSE IF Head(s) = " " THEN Squeeze(Tail(s))
    ELSE <<Head(s)>> \o Squeeze(Tail(s))

\* index of the last "<" of s, 0 if there is none
RECURSIVE LastOpen(_, _)
LastOpen(s, j) == IF j = 0 THEN 0 ELSE IF s[j] = "<" THEN j ELSE LastOpen(s, j - 1)

\* the opening tag of an item and the text between its opening and closing tag
OpeningTag(item) == SubSeq(item, 1, FindFrom(item, ">", 1))
TagStripped(item) == SubSeq(item, FindFrom(item, ">", 1) + 1, LastOpen(item, Len(item)) - 1)

IsParagraphItem(item) == OpeningTag(item) = PTag
IsHeadingItem(item) == \E k \in 1..99 : OpeningTag(item) = HTag(k)

\* everything the sections of a page say, titles and texts in order
SaidBy(sections) ==
    Concat([k \in 1..Len(sections) |-> sections[k].title \o sections[k].text])

\* the texts of the items, each followed by one space
RECURSIVE Spaced(_)
Spaced(items) ==
    IF items = <<>> THEN <<>>
    ELSE TagStripped(Head(items)) \o <<" ">> \o Spaced(Tail(items))

PassEntry == entry \in {"process_list_to_json", "repair"}

(***************************************************************************)
(* C1: the repair pass (empty-pair merge, duplicate removal, title         *)
(* concatenation) applied to its own result returns that result unchanged. *)
(***************************************************************************)
C1_RepairIdempotent == (PassEntry /\ Done) => RepairPass(data) = data

(***************************************************************************)
(* C2: in the list the repair pass returns, no two sections have the same  *)
(* (title, text, page) tuple.                                              *)
(***************************************************************************)
C2_NoIdenticalSections ==
    (PassEntry /\ Done) =>
        \A j, k \in DOMAIN data : j # k => Key(data[j]) # Key(data[k])

(***************************************************************************)
(* C3: every item of a page that carries <p> or a heading tag <h{k}>,      *)
(* k >= 1, contributes its tag-stripped text to the title or text of       *)
(* exactly one section returned for the page, in item order.               *)
(***************************************************************************)
C3_NoTextLost ==
    \A q \in DOMAIN page_out :
        LET items == flatten_list(data_list[q].content)
        IN  Squeeze(SaidBy(page_out[q])) =
                Concat([k \in 1..Len(items) |-> Squeeze(TagStripped(items[k]))])

(***************************************************************************)
(* C4: _process_titles deletes every section with empty text that is not   *)
(* the last one and prepends its title, with one space, to the title of    *)
(* the section after it: a run of empty-text sections followed by S gives  *)
(* one section with the titles joined in order by single spaces and with   *)
(* S's text and page; the other sections are unchanged.                    *)
(***************************************************************************)
\* the sections that are kept: those with text, and the last one
Survivors(d) == {j \in 1..Len(d) : d[j].text # <<>> \/ j = Len(d)}

\* the start of the run of empty-text sections that ends right before j
RunStart(d, j) ==
    CHOOSE r \in 1..j : /\ \A m \in r..(j - 1) : d[m].text = <<>>
                        /\ r = 1 \/ d[r - 1].text # <<>>

RECURSIVE JoinTitles(_, _, _)
JoinTitles(d, r, j) ==
    IF r = j THEN d[j].title ELSE d[r].title \o <<" ">> \o JoinTitles(d, r + 1, j)

TitlesExpected(d) ==
    LET keep == Ascending(Survivors(d))
    IN  [k \in 1..Len(keep) |->
            Section(JoinTitles(d, RunStart(d, keep[k]), keep[k]),
                    d[keep[k]].text, d[keep[k]].page)]

C4_TitlesConcatenated ==
    (entry = "process_titles" /\ Done) => data = TitlesExpected(arg)

\* a run of two empty-text sections followed by a third was joined into one
C4_Witness ==
    /\ entry = "process_titles" /\ Done
    /\ Len(arg) = 3 /\ arg[1].text = <<>> /\ arg[2].text = <<>> /\ arg[3].text # <<>>
    /\ arg[1].title # <<>> /\ arg[2].title # <<>>
    /\ Len(data) = 1

(***************************************************************************)
(* C5: _process_titles terminates; each pass through its loop either       *)
(* deletes one section or advances the cursor by one; and at its return    *)
(* every remaining section except possibly the last has non-empty text.    *)
(***************************************************************************)
AllButLastHaveText(d) == \A j \in 1..(Len(d) - 1) : d[j].text # <<>>

DeletesOrAdvances ==
    (pc = "titles" /\ pc' = "titles") =>
        \/ Len(data') = Len(data) - 1 /\ i' = i
        \/ Len(data') = Len(data) /\ i' = i + 1

C5_TitlesTerminate ==
    /\ (pc = "titles") ~> Done
    /\ [][DeletesOrAdvances]_vars
    /\ [](Done => AllButLastHaveText(data))

\* a call that both deleted a section and advanced the cursor has returned
C5_Witness ==
    /\ entry = "process_titles" /\ Done
    /\ Len(data) < Len(arg) /\ i >= 1

(***************************************************************************)
(* C6: _remove_duplicates keeps, in input order, exactly the first         *)
(* occurrence of every distinct (title, text, page) tuple of its input.    *)
(***************************************************************************)
FirstOccurrences(d) == {j \in 1..Len(d) : \A k \in 1..(j - 1) : Key(d[k]) # Key(d[j])}

C6_FirstOccurrencesKept ==
    (entry = "remove_duplicates" /\ Done) =>
        data = [k \in 1..Cardinality(FirstOccurrences(arg)) |->
                    arg[Ascending(FirstOccurrences(arg))[k]]]

\* a duplicate was dropped from between sections that were kept
C6_Witness ==
    /\ entry = "remove_duplicates" /\ Done
    /\ Len(arg) = 3 /\ Len(data) = 2
    /\ Key(arg[1]) = Key(arg[3])

(***************************************************************************)
(* C7: a page that is one heading item followed by n >= 1 paragraph items  *)
(* yields exactly one section: the heading's text as title, the            *)
(* paragraphs' texts in order, each followed by one space, as text, and    *)
(* the page number of the input.                                           *)
(***************************************************************************)
HeadingThenParagraphs(items) ==
    /\ Len(items) >= 2
    /\ IsHeadingItem(items[1])
    /\ \A k \in 2..Len(items) : IsParagraphItem(items[k])

C7_HeadingThenParagraphs ==
    \A q \in DOMAIN page_out :
        LET items == flatten_list(data_list[q].content)
        IN  HeadingThenParagraphs(items) =>
                page_out[q] = <<Section(TagStripped(items[1]), Spaced(Tail(items)),
                                        data_list[q].page)>>

(***************************************************************************)
(* C8: for a two-page document whose page 1 is one <h1> heading followed   *)
(* by body paragraphs and whose page 2 holds only paragraphs, the repair   *)
(* pass returns one section for page 1 (heading as title, body as text)    *)
(* and one for page 2 whose title is its first paragraph; a paragraph      *)
(* becomes the title only when no title was set on the page before it, and *)
(* every later paragraph is appended to the text.                          *)
(***************************************************************************)
TitlePromotionScenario ==
    /\ entry = "process_list_to_json"
    /\ Len(data_list) = 2
    /\ LET one == flatten_list(data_list[1].content)
           two == flatten_list(data_list[2].content)
       IN  /\ HeadingThenParagraphs(one)
           /\ OpeningTag(one[1]) = HTag(1)
           /\ Len(two) >= 1
           /\ \A k \in 1..Len(two) : IsParagraphItem(two[k])

NoTitleYet == structured_page_data = <<>> /\ current_section.title = <<>>

ParagraphPromotedOrAppended ==
    (pc = "items" /\ item_idx' = item_idx + 1 /\ IsParagraphItem(flat_page[item_idx])) =>
        LET text == TagStripped(flat_page[item_idx])
        IN  IF NoTitleYet
            THEN /\ current_section'.title = text
                 /\ current_section'.text = current_section.text
            ELSE /\ current_section'.title = current_section.title
                 /\ current_section'.text = current_section.text \o text \o <<" ">>

C8_TitlePromotion ==
    /\ []((TitlePromotionScenario /\ Done) =>
            LET one == flatten_list(data_list[1].content)
                two == flatten_list(data_list[2].content)
            IN  data = <<Section(TagStripped(one[1]), Spaced(Tail(one)), data_list[1].page),
                         Section(TagStripped(two[1]), Spaced(Tail(two)), data_list[2].page)>>)
    /\ [][ParagraphPromotedOrAppended]_vars

\* the two-page document was converted
C8_Witness == TitlePromotionScenario /\ Done /\ Len(data) = 2

(***************************************************************************)
(* C9: the dominant style of a page, the first identifier of the           *)
(* count-sorted list, which no identifier of the page outnumbers, is       *)
(* mapped to <p> by the page's tag map, also when it is the only style and *)
(* when other styles share its size.                                       *)
(***************************************************************************)
SpanIdentifier(span) == Identifier(span.size, span.font, span.color)

Occurrences(spans, identifier) ==
    Cardinality({k \in 1..Len(spans) : SpanIdentifier(spans[k]) = identifier})

C9_DominantIsParagraph ==
    (entry = "process_document" /\ pc = "blocks") =>
        LET spans == TextSpans(doc[page_idx].blocks)
            dominant == font_counts[1][1]
        IN  /\ \A k \in 1..Len(spans) :
                   Occurrences(spans, SpanIdentifier(spans[k])) <= Occurrences(spans, dominant)
            /\ dominant \in DOMAIN size_tag
            /\ size_tag[dominant] = PTag

\* a tag map in which a style of the dominant size is a heading
C9_Witness ==
    /\ entry = "process_document" /\ pc = "blocks"
    /\ size_tag[font_counts[1][1]] = PTag
    /\ \E x \in DOMAIN size_tag :
           /\ x # font_counts[1][1]
           /\ styles[x].size = styles[font_counts[1][1]].size
           /\ size_tag[x] = HTag(1)

(***************************************************************************)
(* C10: the fragments of a block, tags stripped, are the texts of the      *)
(* block's spans that are not whitespace only, in span order, none lost,   *)
(* doubled or moved: consecutive such spans of one style are joined by one *)
(* space in one fragment, a change of style starts a new fragment, and     *)
(* whitespace-only spans neither start, extend nor close a fragment.       *)
(***************************************************************************)
HasText(span) == \E k \in 1..Len(span.text) : span.text[k] # " "

StyleOf(span) == <<span.size, span.font, span.color>>

\* the spans of a block that are not whitespace only
Visible(block) == SelectSeq(LineSpans(block.lines), HasText)

\* where the runs of spans of one style start
RunStarts(nb) == {k \in 1..Len(nb) : k = 1 \/ StyleOf(nb[k]) # StyleOf(nb[k - 1])}

RECURSIVE JoinTexts(_, _, _)
JoinTexts(nb, from, to) ==
    IF from = to THEN nb[to].text
    ELSE nb[from].text \o <<" ">> \o JoinTexts(nb, from + 1, to)

\* the texts of the fragments the claim expects of a block
FragmentTexts(block) ==
    LET nb == Visible(block)
        starts == Ascending(RunStarts(nb))
    IN  [m \in 1..Len(starts) |->
            JoinTexts(nb, starts[m],
                      IF m = Len(starts) THEN Len(nb) ELSE starts[m + 1] - 1)]

ShowsText(block) == block.type = 0 /\ Visible(block) # <<>>

C10_BlockTextPreserved ==
    \A q \in DOMAIN html_pages_list :
        LET blocks == SelectSeq(doc[q].blocks, ShowsText)
            content == html_pages_list[q].content
        IN  /\ Len(content) = Len(blocks)
            /\ \A b \in 1..Len(blocks) :
                   [m \in 1..Len(content[b]) |-> TagStripped(content[b][m])]
                       = FragmentTexts(blocks[b])

\* a whitespace-only span of another style lay between two spans of one
\* style, which were joined in one fragment
C10_Witness ==
    \E q \in DOMAIN html_pages_list :
        /\ Len(doc[q].blocks) = 1 /\ doc[q].blocks[1].type = 0
        /\ LET spans == LineSpans(doc[q].blocks[1].lines)
           IN  /\ Len(spans) = 3
               /\ HasText(spans[1]) /\ ~HasText(spans[2]) /\ HasText(spans[3])
               /\ StyleOf(spans[1]) = StyleOf(spans[3])
               /\ StyleOf(spans[2]) # StyleOf(spans[1])
        /\ Len(html_pages_list[q].content) = 1
        /\ Len(html_pages_list[q].content[1]) = 1
(***************************************************************************)
(* C11: a page that yields no span is fatal for the whole document.  When  *)
(* some page has no span, process_document raises at the first such page,  *)
(* after it has built the entries of the pages before it; no page list is  *)
(* ever bound, and process_pdf_to_json ends with an error shown and no     *)
(* JSON output.  When every page has a span, nothing is raised, the list   *)
(* process_document returns has one entry per page in page order, and      *)
(* process_pdf_to_json ends with a JSON output.                            *)
(***************************************************************************)
\* no text block of the page has a line with a span
YieldsNoSpan(page) ==
    \A b \in 1..Len(page.blocks) :
        page.blocks[b].type = 0 =>
            \A l \in 1..Len(page.blocks[b].lines) : page.blocks[b].lines[l] = <<>>

SpanlessPages == {q \in 1..Len(doc) : YieldsNoSpan(doc[q])}

OneEntryPerPage(pages) ==
    /\ Len(pages) = Len(doc)
    /\ \A q \in 1..Len(pages) : pages[q].page = doc[q].number

EmptyPageOutcome ==
    /\ pc = "raised" =>
           /\ page_idx \in SpanlessPages
           /\ \A q \in SpanlessPages : page_idx <= q
           /\ Len(html_pages_list) = page_idx - 1
    /\ SpanlessPages # {} =>
           /\ all_pages_data = NoValue
           /\ json_output = NoValue
           /\ pc # "returned"
    /\ pc = "failed" => st_error /\ json_output = NoValue /\ all_pages_data = NoValue
    /\ SpanlessPages = {} =>
           /\ pc \notin {"raised", "failed"}
           /\ ~st_error
    /\ all_pages_data # NoValue => OneEntryPerPage(all_pages_data[1])
    /\ pc = "returned" => json_output # NoValue

\* the step taken at a page without a span is the raise, the step taken after
\* the raise is the report of the failure, and a list is only returned from
\* behind the last page
RaisesAndReports ==
    /\ (pc = "fonts" /\ page_idx \in SpanlessPages) => pc' = "raised"
    /\ pc = "raised" => (pc' = "failed" /\ st_error' /\ json_output' = NoValue)
    /\ (pc = "fonts" /\ pc' = "done") => page_idx > Len(doc)

C11_EmptyPageFatal == []EmptyPageOutcome /\ [][RaisesAndReports]_vars

\* the second page has no span: the entry of the first page was built, and
\* the conversion has failed
C11_Witness ==
    /\ pc = "failed"
    /\ Len(doc) >= 2
    /\ YieldsNoSpan(doc[2])
    /\ Len(html_pages_list) = 1
    /\ st_error

(***************************************************************************)
(* C12: the repair stages never empty a non-empty list.  No step of        *)
(* empty-pair merge, duplicate removal or title concatenation turns a      *)
(* non-empty section list into the empty list (title concatenation never   *)
(* deletes the last remaining section), so each stage called on a          *)
(* non-empty list returns a non-empty list, and process_list_to_json       *)
(* returns a non-empty list whenever a page produced a section.            *)
(***************************************************************************)
StaysNonEmpty == data # <<>> => data' # <<>>

SomePageProducedASection == \E k \in 1..Len(page_out) : page_out[k] # <<>>

C12_RepairNeverEmpties ==
    /\ [][StaysNonEmpty]_vars
    /\ []((Done /\ arg # <<>>) => data # <<>>)
    /\ []((Done /\ entry = "process_list_to_json" /\ SomePageProducedASection)
              => data # <<>>)

\* title concatenation has reduced a list of several sections to one section
C12_Witness ==
    /\ Done
    /\ entry \in {"repair", "process_titles"}
    /\ Len(arg) >= 2
    /\ Len(data) = 1

(***************************************************************************)
(* C13: heading numbering in the tag map of one page.  Walking the page's  *)
(* distinct (size, font, color) styles by descending size, then ascending  *)
(* font, then ascending color, a style is a heading iff it is larger than  *)
(* the dominant style, or of its size with another font or color; the j-th *)
(* heading style of the walk is tagged h{j}, counted from 1 on every page, *)
(* and every other style, the smaller ones included, is tagged p.          *)
(***************************************************************************)
PageStyles == {StyleOf(TextSpans(doc[page_idx].blocks)[k]) :
                  k \in 1..Len(TextSpans(doc[page_idx].blocks))}

DominantStyle ==
    LET dominant == styles[font_counts[1][1]]
    IN  <<dominant.size, dominant.font, dominant.color>>

HeadingStyle(x) ==
    \/ x[1] > DominantStyle[1]
    \/ x[1] = DominantStyle[1] /\ (x[2] # DominantStyle[2] \/ x[3] # DominantStyle[3])

WalkedBefore(y, x) ==
    \/ y[1] > x[1]
    \/ y[1] = x[1] /\ StrLess(y[2], x[2])
    \/ y[1] = x[1] /\ y[2] = x[2] /\ y[3] < x[3]

HeadingLevel(x) ==
    1 + Cardinality({y \in PageStyles : HeadingStyle(y) /\ WalkedBefore(y, x)})

C13_HeadingNumbering ==
    (entry = "process_document" /\ pc = "blocks") =>
        /\ DOMAIN size_tag = {Identifier(x[1], x[2], x[3]) : x \in PageStyles}
        /\ \A x \in PageStyles :
               size_tag[Identifier(x[1], x[2], x[3])] =
                   IF HeadingStyle(x) THEN HTag(HeadingLevel(x)) ELSE PTag
        /\ \A x \in PageStyles :
               x[1] < DominantStyle[1] => size_tag[Identifier(x[1], x[2], x[3])] = PTag

\* the second page has a heading of level 1 after a first page with a heading
\* of level 1
C13_Witness ==
    /\ entry = "process_document" /\ pc = "blocks"
    /\ page_idx = 2
    /\ \E x \in DOMAIN size_tag : size_tag[x] = HTag(1)
    /\ \E b \in 1..Len(html_pages_list[1].content) :
           \E k \in 1..Len(html_pages_list[1].content[b]) :
               OpeningTag(html_pages_list[1].content[b][k]) = HTag(1)

(***************************************************************************)
(* C14: empty-pair merge.  Scanning the list from the left, a section that *)
(* is not the second of a merged pair and has empty text, followed by a    *)
(* section with empty text, is merged with it into the section (its title, *)
(* the follower's title as text, its page), and the scan resumes behind    *)
(* the pair, so pairs never overlap; every other section is copied         *)
(* unchanged, in order; the result is shorter than the input by the number *)
(* of merged pairs.                                                        *)
(***************************************************************************)
\* the sections at j and j + 1 of sd are merged
RECURSIVE PairAt(_, _)
PairAt(sd, j) ==
    /\ j >= 1
    /\ j < Len(sd)
    /\ sd[j].text = <<>>
    /\ sd[j + 1].text = <<>>
    /\ ~PairAt(sd, j - 1)

Pairs(sd) == {j \in 1..Len(sd) : PairAt(sd, j)}

\* the sections that are not the second of a pair, in order, each pair's
\* first section standing for the pair
MergeExpected(sd) ==
    LET firsts == Ascending({j \in 1..Len(sd) : ~PairAt(sd, j - 1)})
    IN  [k \in 1..Len(firsts) |->
            IF PairAt(sd, firsts[k])
            THEN [title |-> sd[firsts[k]].title,
                  text |-> sd[firsts[k] + 1].title,
                  page |-> sd[firsts[k]].page]
            ELSE sd[firsts[k]]]

MergeReturned == pc = "dedup" /\ entry \in {"repair", "process_list_to_json"}

C14_EmptyPairMerge ==
    MergeReturned =>
        /\ data = MergeExpected(arg)
        /\ Len(data) = Len(arg) - Cardinality(Pairs(arg))
        /\ \A j \in Pairs(arg) : j + 1 \notin Pairs(arg)

\* three sections with empty text in a row: the first two are merged, the
\* third is copied
C14_Witness ==
    /\ MergeReturned
    /\ Len(arg) = 3
    /\ \A j \in 1..3 : arg[j].text = <<>>
    /\ Len(data) = 2
    /\ data[1].text = arg[2].title
    /\ data[2] = arg[3]

====
